---------------------------- MODULE Spec2Model ----------------------------
(***************************************************************************)
(* A model of the message-send protocol handler of unofficial-claude-api.  *)
(* Two packages of the repository are modelled side by side:               *)
(*   claude_api   (src/claude_api/client.py)                               *)
(*   claude2_api  (src/claude2_api/client.py)                              *)
(* The variable pkg says which package's code a behaviour runs.            *)
(*                                                                         *)
(* Text is modelled as a sequence of one-character strings, so that        *)
(* str.strip, str.join and the `in` substring test are computed.  A       *)
(* response body is modelled as the list of its lines, each line carrying  *)
(* what re.search(r"\{.*\}") and json.loads make of it.                   *)
(***************************************************************************)
EXTENDS Integers, Sequences, FiniteSets, TLC

VARIABLES
    pkg,            \* the package whose code runs: "claude_api" or "claude2_api"
    data_bytes,     \* SpecParse: the argument of __parse_send_message_response
    parse_out,      \* SpecParse: its outcome (a return value or a raised exception)
    parse_pc,       \* SpecParse: "ready" before the call, "done" after it
    plain,          \* SpecDecode: the byte buffer B the server starts from
    encoding,       \* SpecDecode: the encoding E the server applies to B
    wire,           \* SpecDecode: the buffer handed to __decode_response
    encoding_header,\* SpecDecode: the label handed to __decode_response
    decoded,        \* SpecDecode: the outcome of __decode_response
    decode_pc,      \* SpecDecode: "plain", "encoded" or "done"
    model_name,     \* Spec: the client's model_name
    send_pc,        \* Spec: "idle" before the send_message call, "done" after it
    attachment_paths, \* Spec: the attachment_paths argument of the call
    response,       \* Spec: the response to the completion POST, if issued
    net,            \* Spec: the network requests the call issued, in order
    dec,            \* Spec: the outcome of __decode_response inside the call
    parser_arg,     \* Spec: the buffer __parse_send_message_response was run on
    send_out,       \* Spec: the outcome of send_message
    exc,            \* SpecSleep: a MessageRateLimitError
    clock,          \* SpecSleep: what time() returns, in ticks of 1/TicksPerSec s
    sleep_out,      \* SpecSleep: the outcome of reading exc.sleep_sec
    session0,       \* SpecClient: the SessionData as first handed to a constructor
    session,        \* SpecClient: the SessionData object the clients share
    clients,        \* SpecClient: the clients constructed on the session so far
    constructions,  \* SpecClient: the constructor calls so far
    validated,      \* SpecClient: those that passed the argument checks
    failed_resolutions, \* SpecClient: those that raised RuntimeError
    org_lookups,    \* SpecClient: the GET /api/organizations requests so far
    server_chats,   \* SpecClient: the chats that exist on the service
    used_ids,       \* SpecClient: the chat ids ever seen (uuid4 never repeats)
    delete_successes, \* SpecClient: per chat id, the delete_chat calls that returned True
    op,             \* SpecClient: the last call: its name, requests and outcome
    client          \* SpecClient: the attributes of the client last constructed

parseVars  == <<data_bytes, parse_out, parse_pc>>
decodeVars == <<plain, encoding, wire, encoding_header, decoded, decode_pc>>
sendVars   == <<model_name, send_pc, attachment_paths, response, net, dec,
                parser_arg, send_out>>
sleepVars  == <<exc, clock, sleep_out>>
clientVars == <<session0, session, clients, constructions, validated,
                failed_resolutions, org_lookups, server_chats, used_ids,
                delete_successes, op, client>>
vars == <<pkg, parseVars, decodeVars, sendVars, sleepVars, clientVars>>

Packages == {"claude_api", "claude2_api"}

---------------------------------------------------------------------------
(* Bounds of the model *)

\* Longest stream (in lines) handed to the parser in SpecParse.
MaxLines == 3
\* Longest body (in lines) of a response in Spec and of a buffer in SpecDecode.
MaxBodyLines == 2
\* Longest attachment list made of valid files only (the limit of 5 and past it).
MaxPaths == 6
\* Longest attachment list drawn from all files, valid or not.
MaxMixedPaths == 3

---------------------------------------------------------------------------
(* Python values *)

\* Outcome of a call: a returned value or a raised exception.
Return(v) == [kind |-> "return", value |-> v]
Raise(e)  == [kind |-> "raise", exc |-> e]

\* `str | None`: the answer of the parser.
NoneVal   == [none |-> TRUE,  s |-> <<>>]
StrVal(s) == [none |-> FALSE, s |-> s]

\* The exceptions of errors.py, with the fields they carry.
MessageRateLimitError(reset_timestamp) ==
    [type |-> "MessageRateLimitError", reset_timestamp |-> reset_timestamp]
OverloadError(error_msg) ==
    [type |-> "OverloadError", error_msg |-> error_msg]
ClaudeAPIError(error_type, error_msg) ==
    [type |-> "ClaudeAPIError", error_type |-> error_type, error_msg |-> error_msg]
\* Exceptions of the standard library raised inside the handlers.
JSONDecodeError    == [type |-> "JSONDecodeError"]
UnicodeDecodeError == [type |-> "UnicodeDecodeError"]

---------------------------------------------------------------------------
(* Text: sequences of one-character strings *)

Whitespace == {" ", "\n", "\t"}

\* str.strip(): drop leading and trailing whitespace, keep the interior.
Strip(s) ==
    LET keep == {i \in 1..Len(s) : s[i] \notin Whitespace}
    IN  IF keep = {} THEN <<>>
        ELSE LET lo == CHOOSE i \in keep : \A j \in keep : i <= j
                 hi == CHOOSE i \in keep : \A j \in keep : j <= i
             IN  SubSeq(s, lo, hi)

\* "".join(parts)
RECURSIVE Join(_)
Join(parts) == IF parts = <<>> THEN <<>> ELSE Head(parts) \o Join(Tail(parts))

\* needle in hay (substring test)
Contains(hay, needle) ==
    \E i \in 1..(Len(hay) - Len(needle) + 1) :
        SubSeq(hay, i, i + Len(needle) - 1) = needle

S_overloaded == <<"o","v","e","r","l","o","a","d","e","d">>

S_overloaded_error == S_overloaded \o <<"_","e","r","r","o","r">>
S_api_overloaded   == <<"a","p","i","_">> \o S_overloaded
S_Overloaded_error == <<"O">> \o Tail(S_overloaded_error)
S_invalid_request  == <<"i","n","v","a","l","i","d">>
S_Hello            == <<"H","e","l","l","o",","," ">>
S_world            == <<"w","o","r","l","d",".">>
S_padded           == <<" ","a"," "," ","b","\n">>

---------------------------------------------------------------------------
(* Response bodies *)

\* A JSON object is a function from its keys to its values (a Python dict).
\* A line of a body is one of:
\*   blank    an empty line (what a run of newlines leaves between two lines)
\*   text     a non-empty line in which re.search(r"\{.*\}") finds nothing
\*   bytes    a line holding a byte sequence that is not valid UTF-8
\*   cand     a line in which re.search finds a `{...}` candidate, after an
\*            optional prefix such as "data: "; json.loads either raises on
\*            the candidate (valid = FALSE) or yields the dict obj
BlankLine    == [kind |-> "blank"]
TextLine     == [kind |-> "text"]
BadBytesLine == [kind |-> "bytes"]
MalformedLine == [kind |-> "cand", prefix |-> "", valid |-> FALSE, obj |-> <<>>]
ObjLine(prefix, obj) == [kind |-> "cand", prefix |-> prefix, valid |-> TRUE, obj |-> obj]

\* A byte buffer: the lines of its text under the compression layers applied
\* to it (outermost first); layers = <<>> is an uncompressed buffer.
Buffer(layers, lines) == [layers |-> layers, lines |-> lines]

Completion(s) == [completion |-> s]
ErrorObj(e)   == [error |-> e]

\* The JSON objects the server sends in the model.
CompletionObjs ==
    { Completion(S_Hello), Completion(S_world), Completion(S_padded) }
OtherObjs == { [stop_reason |-> "stop_sequence"] }
RateLimitObjs ==
    { ErrorObj([resets_at |-> 1700000000]),
      ErrorObj([resets_at |-> 5, type |-> S_overloaded_error,
                message |-> "try later"]) }
PlainErrorObjs ==
    { ErrorObj([type |-> S_overloaded_error, message |-> "try later"]),
      ErrorObj([type |-> S_api_overloaded]),
      ErrorObj([type |-> S_Overloaded_error, message |-> "cap"]),
      ErrorObj([type |-> S_invalid_request, message |-> "bad"]),
      ErrorObj([message |-> "no type"]),
      [error |-> [type |-> S_overloaded_error, message |-> "try later"],
       completion |-> S_world] }
ErrorObjs == RateLimitObjs \cup PlainErrorObjs
JsonObjs  == CompletionObjs \cup OtherObjs \cup ErrorObjs

\* The lines a stream handed to the parser is made of.
ParseLines ==
    { BlankLine, TextLine, BadBytesLine, MalformedLine }
    \cup { ObjLine("", o) : o \in JsonObjs }
    \cup { ObjLine("data: ", Completion(S_Hello)) }

\* All sequences over S of length at most n.
RECURSIVE SeqsUpTo(_, _)
SeqsUpTo(S, n) ==
    IF n = 0 THEN { <<>> }
    ELSE LET shorter == SeqsUpTo(S, n - 1)
         IN  shorter \cup { Append(q, x) : q \in { r \in shorter : Len(r) = n - 1 }, x \in S }

---------------------------------------------------------------------------
(* __parse_send_message_response *)

\* bytes.decode("utf-8"): strict, raises on any invalid byte.  A buffer still
\* under a compression layer is binary data (a gzip stream starts 1f 8b,
\* which is not valid UTF-8) and does not decode either.
DecodesAsUtf8(buffer) ==
    /\ buffer.layers = <<>>
    /\ \A i \in 1..Len(buffer.lines) : buffer.lines[i].kind # "bytes"

\* sub("\n+", "\n", res).strip() followed by splitlines(): the lines of the
\* text, the empty ones gone.
SplitLines(lines) == SelectSeq(lines, LAMBDA l : l.kind # "blank")

\* The `{...}` candidates of the lines in which re.search finds one.
DataLines(lines) == SelectSeq(SplitLines(lines), LAMBDA l : l.kind = "cand")

\* "overloaded" in error_type
\* (IsOverloadedMut: error_type.startswith("overloaded") instead.)
IsOverloadedMut(error_type) == SubSeq(error_type, 1, Len(S_overloaded)) = S_overloaded
IsOverloaded(error_type) == Contains(error_type, S_overloaded)

\* The body of `if "error" in data_dict:`: every path raises.
\* (ClassifyErrorMut: the overload test made before the resets_at test.)
ClassifyErrorMut(data_dict) ==
    LET error_d    == data_dict.error
        error_type == IF "type" \in DOMAIN error_d THEN error_d.type ELSE <<>>
        error_msg  == IF "message" \in DOMAIN error_d THEN error_d.message ELSE ""
    IN  IF IsOverloaded(error_type)
        THEN Raise(OverloadError(error_msg))
        ELSE IF "resets_at" \in DOMAIN error_d
        THEN Raise(MessageRateLimitError(error_d.resets_at))
        ELSE Raise(ClaudeAPIError(error_type, error_msg))
ClassifyError(data_dict) ==
    IF "resets_at" \in DOMAIN data_dict.error
    \* resets_at is a JSON integer: int() of it is that integer
    THEN Raise(MessageRateLimitError(data_dict.error.resets_at))
    ELSE LET error_d    == data_dict.error
             error_type == IF "type" \in DOMAIN error_d THEN error_d.type ELSE <<>>
             error_msg  == IF "message" \in DOMAIN error_d THEN error_d.message ELSE ""
         IN  IF IsOverloaded(error_type)
             THEN Raise(OverloadError(error_msg))
             ELSE Raise(ClaudeAPIError(error_type, error_msg))

\* The `for line in data_lines` loop and the final join.
\* (ParseLoopMut: an error object is acted on only while no completion has
\* been accumulated; afterwards it is passed over.)
RECURSIVE ParseLoopMut(_, _)
ParseLoopMut(data_lines, completions) ==
    IF data_lines = <<>>
    THEN Return(StrVal(Strip(Join(completions))))
    ELSE LET line == Head(data_lines)
         IN  IF ~line.valid
             THEN Raise(JSONDecodeError)
             ELSE IF "error" \in DOMAIN line.obj /\ completions = <<>>
             THEN ClassifyError(line.obj)
             ELSE ParseLoopMut(Tail(data_lines),
                               IF "completion" \in DOMAIN line.obj
                               THEN Append(completions, line.obj.completion)
                               ELSE completions)
RECURSIVE ParseLoop(_, _)
ParseLoop(data_lines, completions) ==
    IF data_lines = <<>>
    THEN Return(StrVal(Strip(Join(completions))))
    ELSE LET line == Head(data_lines)
         IN  IF ~line.valid
             THEN Raise(JSONDecodeError)
             ELSE IF "error" \in DOMAIN line.obj
             THEN ClassifyError(line.obj)
             ELSE ParseLoop(Tail(data_lines),
                            IF "completion" \in DOMAIN line.obj
                            THEN Append(completions, line.obj.completion)
                            ELSE completions)

\* (parse_send_message_response_mut: the data lines are first searched for
\* an object carrying error.resets_at, which wins wherever it stands.)
parse_send_message_response_mut(buffer) ==
    IF ~DecodesAsUtf8(buffer)
    THEN Raise(UnicodeDecodeError)
    ELSE LET data_lines == DataLines(buffer.lines)
             limits == SelectSeq(data_lines,
                           LAMBDA l : /\ l.valid
                                      /\ "error" \in DOMAIN l.obj
                                      /\ "resets_at" \in DOMAIN l.obj.error)
         IN  IF data_lines = <<>>
             THEN Return(NoneVal)
             ELSE IF limits # <<>>
             THEN ClassifyError(limits[1].obj)
             ELSE ParseLoop(data_lines, <<>>)
parse_send_message_response(buffer) ==
    IF ~DecodesAsUtf8(buffer)
    THEN Raise(UnicodeDecodeError)
    ELSE LET data_lines == DataLines(buffer.lines)
         IN  IF data_lines = <<>>
             THEN Return(NoneVal)
             ELSE ParseLoop(data_lines, <<>>)

---------------------------------------------------------------------------
(* SpecParse: the parser applied to every stream of at most MaxLines lines *)

NotCalled == [kind |-> "none"]
NoBuffer  == Buffer(<<>>, <<>>)

\* The variables a specification does not use keep these values.
IdleParse ==
    /\ data_bytes = NoBuffer
    /\ parse_out = NotCalled
    /\ parse_pc = "unused"
IdleDecode ==
    /\ plain = NoBuffer
    /\ encoding = "None"
    /\ wire = NoBuffer
    /\ encoding_header = "None"
    /\ decoded = NotCalled
    /\ decode_pc = "unused"
IdleSend ==
    /\ model_name = "None"
    /\ send_pc = "unused"
    /\ attachment_paths = <<>>
    /\ response = NotCalled
    /\ net = <<>>
    /\ dec = NotCalled
    /\ parser_arg = NotCalled
    /\ send_out = NotCalled

IdleSleep ==
    /\ exc = NotCalled
    /\ clock = 0
    /\ sleep_out = NotCalled
IdleClient ==
    /\ session0 = NotCalled
    /\ session = NotCalled
    /\ clients = 0
    /\ constructions = 0
    /\ validated = 0
    /\ failed_resolutions = 0
    /\ org_lookups = 0
    /\ server_chats = {}
    /\ used_ids = {}
    /\ delete_successes = <<>>
    /\ op = NotCalled
    /\ client = NotCalled

InitParse ==
    /\ pkg \in Packages
    /\ IdleDecode
    /\ IdleSend
    /\ IdleSleep
    /\ IdleClient
    /\ data_bytes \in { Buffer(<<>>, ls) : ls \in SeqsUpTo(ParseLines, MaxLines) }
    /\ parse_out = NotCalled
    /\ parse_pc = "ready"

Parse ==
    /\ parse_pc = "ready"
    /\ parse_out' = parse_send_message_response(data_bytes)
    /\ parse_pc' = "done"
    /\ UNCHANGED <<pkg, data_bytes, decodeVars, sendVars, sleepVars, clientVars>>

NextParse == Parse

SpecParse == InitParse /\ [][NextParse]_vars

---------------------------------------------------------------------------
(* __decode_response *)

\* Python's None where a string is expected (an absent Content-Encoding).
None == "None"

ZlibError   == [type |-> "zlib.error"]
BrotliError == [type |-> "brotli.error"]

\* What the server does: the E-encoding of a buffer wraps it in one layer.
Compress(buffer, E) == Buffer(<<E>> \o buffer.layers, buffer.lines)

\* zlib_decompress(buffer, MAX_WBITS | 16): inflates a stream with the gzip
\* wrapper and raises zlib.error on anything else.
InflateGzip(buffer) ==
    IF buffer.layers # <<>> /\ Head(buffer.layers) = "gzip"
    THEN Return(Buffer(Tail(buffer.layers), buffer.lines))
    ELSE Raise(ZlibError)

\* zlib_decompress(buffer, -MAX_WBITS): inflates a raw deflate stream (no
\* header) and raises zlib.error on anything else.
InflateRaw(buffer) ==
    IF buffer.layers # <<>> /\ Head(buffer.layers) = "deflate"
    THEN Return(Buffer(Tail(buffer.layers), buffer.lines))
    ELSE Raise(ZlibError)

\* br_decompress(buffer)
BrotliDecompress(buffer) ==
    IF buffer.layers # <<>> /\ Head(buffer.layers) = "br"
    THEN Return(Buffer(Tail(buffer.layers), buffer.lines))
    ELSE Raise(BrotliError)

\* (decode_response_mut: the two window-bits arguments swapped.)
decode_response_mut(p, buffer, header) ==
    IF header = "gzip" THEN InflateRaw(buffer)
    ELSE IF header = "deflate" THEN InflateGzip(buffer)
    ELSE IF p = "claude2_api" /\ header = "br" THEN BrotliDecompress(buffer)
    ELSE Return(buffer)
\* claude_api dropped the `br` branch that claude2_api has.
decode_response(p, buffer, header) ==
    IF header = "gzip" THEN InflateGzip(buffer)
    ELSE IF header = "deflate" THEN InflateRaw(buffer)
    ELSE IF p = "claude2_api" /\ header = "br" THEN BrotliDecompress(buffer)
    ELSE Return(buffer)

---------------------------------------------------------------------------
(* SpecDecode: the server encodes a buffer, the client decodes it *)

Encodings == {"gzip", "deflate", "br"}
\* The values of the Content-Encoding header; None is its absence.
Labels    == Encodings \cup {None, "zstd"}

\* The lines of the response bodies of Spec and of the buffers of SpecDecode.
BodyLines ==
    { BlankLine, TextLine, BadBytesLine, MalformedLine,
      ObjLine("", Completion(S_Hello)),
      ObjLine("", ErrorObj([resets_at |-> 1700000000])),
      ObjLine("", ErrorObj([type |-> S_overloaded_error, message |-> "try later"])) }

PlainBuffers == { Buffer(<<>>, ls) : ls \in SeqsUpTo(BodyLines, MaxBodyLines) }

InitDecode ==
    /\ pkg \in Packages
    /\ IdleParse
    /\ IdleSend
    /\ IdleSleep
    /\ IdleClient
    /\ plain \in PlainBuffers
    /\ encoding \in Encodings
    /\ wire = plain
    /\ encoding_header \in Labels
    /\ decoded = NotCalled
    /\ decode_pc = "plain"

\* The server applies the encoding to the buffer.
Encode ==
    /\ decode_pc = "plain"
    /\ wire' = Compress(plain, encoding)
    /\ decode_pc' = "encoded"
    /\ UNCHANGED <<pkg, parseVars, sendVars, sleepVars, clientVars, plain, encoding, encoding_header, decoded>>

\* The client decodes what it got under the label it got.
Decode ==
    /\ decode_pc = "encoded"
    /\ decoded' = decode_response(pkg, wire, encoding_header)
    /\ decode_pc' = "done"
    /\ UNCHANGED <<pkg, parseVars, sendVars, sleepVars, clientVars, plain, encoding, wire, encoding_header>>

NextDecode == Encode \/ Decode

SpecDecode == InitDecode /\ [][NextDecode]_vars

---------------------------------------------------------------------------
(* Attachments *)

\* __filesize_limit, and the most attachments a call may carry.
filesize_limit == 10485760
MaxAttachments == 5

ValueError(msg) == [type |-> "ValueError", msg |-> msg]

\* A path is modelled by what the file system and the upload endpoint hold
\* for it: whether it exists, whether it is a regular file, its size, its
\* extension, and the reply (status code and JSON keys) to an upload of it.
File(name, ext, exists, isfile, size, status, keys) ==
    [name |-> name, ext |-> ext, exists |-> exists, isfile |-> isfile,
     size |-> size, upload_status |-> status, upload_keys |-> keys]

F_notes  == File("notes.txt", ".txt", TRUE, TRUE, 1024, 0, {})
F_paper  == File("paper.pdf", ".pdf", TRUE, TRUE, 4096, 200, {"file_uuid"})
F_image  == File("image.png", ".png", TRUE, TRUE, 4096, 500, {})
F_sheet  == File("sheet.csv", ".csv", TRUE, TRUE, 4096, 200, {"detail"})
F_limit  == File("limit.pdf", ".pdf", TRUE, TRUE, filesize_limit, 200, {"file_uuid"})
F_huge   == File("huge.pdf", ".pdf", TRUE, TRUE, filesize_limit + 1, 200, {"file_uuid"})
F_gone   == File("gone.txt", ".txt", FALSE, FALSE, 0, 0, {})
F_folder == File("folder", "", TRUE, FALSE, 4096, 0, {})

ValidFiles == {F_notes, F_paper}
AllFiles   == {F_notes, F_paper, F_image, F_sheet, F_limit, F_huge, F_gone, F_folder}

\* __get_content_type: the MIME type guessed from the extension.
get_content_type(f) ==
    CASE f.ext = ".txt"  -> "text/plain"
      [] f.ext = ".pdf"  -> "application/pdf"
      [] f.ext = ".png"  -> "image/png"
      [] f.ext = ".csv"  -> "text/csv"
      [] OTHER           -> "application/octet-stream"

\* The `for path in path_list` loop of __check_file_attachments_paths.
\* (CheckEachPathMut: the loop returns after its first path.)
CheckEachPathMut(path_list) ==
    IF path_list = <<>> THEN Return(None)
    ELSE LET path == Head(path_list)
         IN  IF ~path.exists \/ ~path.isfile
             THEN Raise(ValueError("Attachment file does not exists"))
             ELSE IF path.size > filesize_limit
             THEN Raise(ValueError("Attachment file exceed file size limit"))
             ELSE Return(None)
RECURSIVE CheckEachPath(_)
CheckEachPath(path_list) ==
    IF path_list = <<>> THEN Return(None)
    ELSE LET path == Head(path_list)
         IN  IF ~path.exists \/ ~path.isfile
             THEN Raise(ValueError("Attachment file does not exists"))
             ELSE IF path.size > filesize_limit
             THEN Raise(ValueError("Attachment file exceed file size limit"))
             ELSE CheckEachPath(Tail(path_list))

\* (check_file_attachments_paths_mut: `>=` where the code has `>`.)
check_file_attachments_paths_mut(path_list) ==
    IF path_list = <<>> THEN Return(None)
    ELSE IF Len(path_list) >= MaxAttachments
    THEN Raise(ValueError("Cannot attach more than 5 files!"))
    ELSE CheckEachPath(path_list)
check_file_attachments_paths(path_list) ==
    IF path_list = <<>> THEN Return(None)
    ELSE IF Len(path_list) > MaxAttachments
    THEN Raise(ValueError("Cannot attach more than 5 files!"))
    ELSE CheckEachPath(path_list)

\* The requests a call issues.
UploadRequest(p, f) ==
    [method |-> "POST",
     url |-> IF p = "claude_api" THEN "/api/{org}/upload" ELSE "/api/convert_document",
     body |-> f.name]
CompletionRequest(payload) ==
    [method |-> "POST", url |-> "/chat_conversations/{chat}/completion", body |-> payload]

\* What __prepare_file_attachment returns: an inline text dict, the id of an
\* uploaded file (claude_api), the JSON of the upload reply (claude2_api), or
\* None.
TextAttachment(f) == [t |-> "dict", file_name |-> f.name, file_type |-> "text/plain"]
FileUuid(f)       == [t |-> "str", file_name |-> f.name, file_type |-> "uuid"]
ConvertedDoc(f)   == [t |-> "json", file_name |-> f.name, file_type |-> "json"]
NoAttachment      == [t |-> "None", file_name |-> "", file_type |-> ""]

\* __prepare_file_attachment: the request it issues, if any, and its value.
prepare_file_attachment(p, f) ==
    IF get_content_type(f) = "text/plain"
    THEN [net |-> <<>>, value |-> TextAttachment(f)]
    ELSE [net |-> <<UploadRequest(p, f)>>,
          value |-> IF f.upload_status # 200 THEN NoAttachment
                    ELSE IF p = "claude2_api" THEN ConvertedDoc(f)
                    ELSE IF "file_uuid" \in f.upload_keys THEN FileUuid(f)
                    ELSE NoAttachment]

\* The attachments list send_message builds: claude_api appends every
\* prepared value, claude2_api keeps the truthy ones.
\* (PrepareAllMut: the loop stops at the first attachment that comes back None.)
RECURSIVE PrepareAllMut(_, _)
PrepareAllMut(p, paths) ==
    IF paths = <<>> THEN [net |-> <<>>, attachments |-> <<>>]
    ELSE LET one  == prepare_file_attachment(p, Head(paths))
             rest == IF one.value.t = "None"
                     THEN [net |-> <<>>, attachments |-> <<>>]
                     ELSE PrepareAllMut(p, Tail(paths))
         IN  [net |-> one.net \o rest.net,
              attachments |->
                  (IF p = "claude2_api" /\ one.value.t = "None" THEN <<>>
                   ELSE <<one.value>>) \o rest.attachments]
RECURSIVE PrepareAll(_, _)
PrepareAll(p, paths) ==
    IF paths = <<>> THEN [net |-> <<>>, attachments |-> <<>>]
    ELSE LET one  == prepare_file_attachment(p, Head(paths))
             rest == PrepareAll(p, Tail(paths))
         IN  [net |-> one.net \o rest.net,
              attachments |->
                  (IF p = "claude2_api" /\ one.value.t = "None" THEN <<>>
                   ELSE <<one.value>>) \o rest.attachments]

\* The payload of the completion POST.
\* (PayloadMut: the two isinstance tests of claude_api exchanged.)
PayloadMut(p, attachments, model) ==
    LET base == IF p = "claude_api"
                THEN [attachments |-> SelectSeq(attachments, LAMBDA a : a.t = "str"),
                      files       |-> SelectSeq(attachments, LAMBDA a : a.t = "dict"),
                      prompt |-> "prompt", timezone |-> "tz"]
                ELSE [attachments |-> attachments, files |-> <<>>,
                      prompt |-> "prompt", timezone |-> "tz"]
    IN  IF p = "claude2_api" \/ model # None
        THEN [k \in DOMAIN base \cup {"model"} |->
                 IF k = "model" THEN model ELSE base[k]]
        ELSE base
Payload(p, attachments, model) ==
    LET base == IF p = "claude_api"
                THEN [attachments |-> SelectSeq(attachments, LAMBDA a : a.t = "dict"),
                      files       |-> SelectSeq(attachments, LAMBDA a : a.t = "str"),
                      prompt |-> "prompt", timezone |-> "tz"]
                ELSE [attachments |-> attachments, files |-> <<>>,
                      prompt |-> "prompt", timezone |-> "tz"]
    IN  IF p = "claude2_api" \/ model # None
        THEN [k \in DOMAIN base \cup {"model"} |->
                 IF k = "model" THEN model ELSE base[k]]
        ELSE base

---------------------------------------------------------------------------
(* send_message *)

SendMessageResponse(answer, status_code, raw_answer) ==
    [answer |-> answer, status_code |-> status_code, raw_answer |-> raw_answer]

\* A response: status code, headers (a function from the names of the
\* headers present to their values) and body bytes.
Headers(label) ==
    IF label = None THEN [h \in {} |-> None]
    ELSE [h \in {"Content-Encoding"} |-> label]
HttpResponse(status_code, label, content) ==
    [status_code |-> status_code, headers |-> Headers(label), content |-> content]

\* Everything after the completion POST: decode, parse, wrap.
\* claude_api catches a failure of the decoder and returns the raw response;
\* claude2_api lets it propagate.
\* (HandleResponseMut: a response that is not 2xx is not parsed, its answer
\* is None.)
HandleResponseMut(p, resp) ==
    LET enc == IF "Content-Encoding" \in DOMAIN resp.headers
               THEN resp.headers["Content-Encoding"] ELSE None
        d   == decode_response(p, resp.content, enc)
    IN  IF d.kind = "raise"
        THEN [dec |-> d, parser_arg |-> NotCalled,
              out |-> IF p = "claude_api"
                      THEN Return(SendMessageResponse(NoneVal, resp.status_code, resp.content))
                      ELSE Raise(d.exc)]
        ELSE IF resp.status_code >= 300
        THEN [dec |-> d, parser_arg |-> NotCalled,
              out |-> Return(SendMessageResponse(NoneVal, resp.status_code, resp.content))]
        ELSE LET answer == parse_send_message_response(d.value)
             IN  [dec |-> d, parser_arg |-> d.value,
                  out |-> IF answer.kind = "raise" THEN answer
                          ELSE Return(SendMessageResponse(answer.value, resp.status_code,
                                                          resp.content))]
HandleResponse(p, resp) ==
    LET enc == IF "Content-Encoding" \in DOMAIN resp.headers
               THEN resp.headers["Content-Encoding"] ELSE None
        d   == decode_response(p, resp.content, enc)
    IN  IF d.kind = "raise"
        THEN [dec |-> d, parser_arg |-> NotCalled,
              out |-> IF p = "claude_api"
                      THEN Return(SendMessageResponse(NoneVal, resp.status_code, resp.content))
                      ELSE Raise(d.exc)]
        ELSE LET answer == parse_send_message_response(d.value)
             IN  [dec |-> d, parser_arg |-> d.value,
                  out |-> IF answer.kind = "raise" THEN answer
                          ELSE Return(SendMessageResponse(answer.value, resp.status_code,
                                                          resp.content))]

\* send_message(chat_id, prompt, attachment_paths), the server answering the
\* completion POST with resp: the requests issued and the outcome.
send_message(p, model, paths, resp) ==
    LET chk == check_file_attachments_paths(paths)
    IN  IF chk.kind = "raise"
        THEN [net |-> <<>>, response |-> NotCalled, dec |-> NotCalled,
              parser_arg |-> NotCalled, out |-> chk]
        ELSE LET prep == PrepareAll(p, paths)
                 post == CompletionRequest(Payload(p, prep.attachments, model))
                 h    == HandleResponse(p, resp)
             IN  [net |-> prep.net \o <<post>>, response |-> resp, dec |-> h.dec,
                  parser_arg |-> h.parser_arg, out |-> h.out]

---------------------------------------------------------------------------
(* Spec: one send_message call of a constructed client *)

StatusCodes == {200, 429, 500}

\* The responses of the server: a body, the encoding the server applied to it
\* (or none) and the Content-Encoding it declares, which need not agree.
Responses ==
    { HttpResponse(sc, label, IF E = None THEN b ELSE Compress(b, E)) :
        sc \in StatusCodes, label \in Labels, E \in Encodings \cup {None},
        b \in PlainBuffers }

\* Two responses for the calls that carry attachments.
FewResponses ==
    { HttpResponse(200, None, Buffer(<<>>, <<ObjLine("", Completion(S_Hello))>>)),
      HttpResponse(429, "gzip",
                   Compress(Buffer(<<>>, <<ObjLine("", ErrorObj([resets_at |-> 1700000000]))>>),
                            "gzip")) }

\* The attachment lists: up to MaxPaths valid files, or up to MaxMixedPaths
\* files of any kind.
AttachmentLists ==
    SeqsUpTo(ValidFiles, MaxPaths) \cup SeqsUpTo(AllFiles, MaxMixedPaths)

ModelNames(p) == IF p = "claude_api" THEN {None, "claude-3-opus"} ELSE {"claude-2.1"}

Init ==
    /\ pkg \in Packages
    /\ IdleParse
    /\ IdleDecode
    /\ IdleSleep
    /\ IdleClient
    /\ model_name \in ModelNames(pkg)
    /\ send_pc = "idle"
    /\ attachment_paths = <<>>
    /\ response = NotCalled
    /\ net = <<>>
    /\ dec = NotCalled
    /\ parser_arg = NotCalled
    /\ send_out = NotCalled

\* The state a send_message call leaves behind.
Sent(paths, resp) ==
    LET r == send_message(pkg, model_name, paths, resp)
    IN  /\ attachment_paths' = paths
        /\ response' = r.response
        /\ net' = r.net
        /\ dec' = r.dec
        /\ parser_arg' = r.parser_arg
        /\ send_out' = r.out

\* A call without attachments, the server free in its response.
SendPlain ==
    /\ send_pc = "idle"
    /\ \E resp \in Responses : Sent(<<>>, resp)
    /\ send_pc' = "done"
    /\ UNCHANGED <<pkg, parseVars, decodeVars, sleepVars, clientVars, model_name>>

\* A call with attachments, the server answering one of two ways.
SendWithAttachments ==
    /\ send_pc = "idle"
    /\ \E paths \in AttachmentLists \ {<<>>}, resp \in FewResponses : Sent(paths, resp)
    /\ send_pc' = "done"
    /\ UNCHANGED <<pkg, parseVars, decodeVars, sleepVars, clientVars, model_name>>

Next == SendPlain \/ SendWithAttachments

Spec == Init /\ [][Next]_vars

---------------------------------------------------------------------------
(* MessageRateLimitError.sleep_sec *)

\* The largest epoch second of the clock and of a reset timestamp, and the
\* resolution of the clock: time() is a float, sleep_sec truncates it.
MaxEpoch    == 8
TicksPerSec == 2

Abs(x) == IF x < 0 THEN -x ELSE x

\* int() of a non-negative float given in ticks: the whole seconds in it.
int(ticks) == ticks \div TicksPerSec

\* The property sleep_sec read at time() = ticks / TicksPerSec.
sleep_sec(self, ticks) ==
    int(Abs(ticks - self.reset_timestamp * TicksPerSec)) + 1

InitSleep ==
    /\ pkg \in Packages
    /\ IdleParse
    /\ IdleDecode
    /\ IdleSend
    /\ IdleClient
    /\ exc \in { MessageRateLimitError(r) : r \in 0..MaxEpoch }
    /\ clock = 0
    /\ sleep_out = NotCalled

\* Time passes until the property is read.
Tick ==
    /\ sleep_out = NotCalled
    /\ clock < MaxEpoch * TicksPerSec
    /\ clock' = clock + 1
    /\ UNCHANGED <<pkg, parseVars, decodeVars, sendVars, clientVars, exc, sleep_out>>

ReadSleepSec ==
    /\ sleep_out = NotCalled
    /\ sleep_out' = Return(sleep_sec(exc, clock))
    /\ UNCHANGED <<pkg, parseVars, decodeVars, sendVars, clientVars, exc, clock>>

NextSleep == Tick \/ ReadSleepSec

SpecSleep == InitSleep /\ [][NextSleep]_vars

---------------------------------------------------------------------------
(* SessionData, the constructor and the chat operations *)

\* The constructor calls one behaviour makes on the shared session.
MaxConstructions == 3

RuntimeError == [type |-> "RuntimeError"]

\* A SessionData object, and the None a caller may pass in its place.
SessionData(cookie, user_agent, organization_id) ==
    [missing |-> FALSE, cookie |-> cookie, user_agent |-> user_agent,
     organization_id |-> organization_id]
NoSession ==
    [missing |-> TRUE, cookie |-> "", user_agent |-> "", organization_id |-> None]

\* An HTTP reply: its status, whether its body is non-empty, its JSON value.
Reply(status_code, content, json) ==
    [status_code |-> status_code, content |-> content, json |-> json]
EmptyObj == [k \in {} |-> ""]

\* A request with the organization id of its URL, its path and its reply.
Request(method, org, path, reply) ==
    [method |-> method, org |-> org, path |-> path, reply |-> reply]

\* __get_organization_id, given the reply to GET /api/organizations.
get_organization_id(reply) ==
    IF /\ reply.status_code = 200
       /\ reply.content
       /\ reply.json # <<>>
       /\ "uuid" \in DOMAIN reply.json[1]
    THEN Return(reply.json[1].uuid)
    ELSE Raise(RuntimeError)

\* The lazy fill of the constructor: `if organization_id is None: ...`.
\* (ResolveOrganizationIdMut: the test is gone, every construction looks up.)
ResolveOrganizationIdMut(s, reply) ==
    LET r == get_organization_id(reply)
    IN  [net     |-> <<Request("GET", None, <<"organizations">>, reply)>>,
         session |-> IF r.kind = "return"
                     THEN [s EXCEPT !.organization_id = r.value] ELSE s,
         out     |-> IF r.kind = "return" THEN Return(None) ELSE r]
ResolveOrganizationId(s, reply) ==
    IF s.organization_id = None
    THEN LET r == get_organization_id(reply)
         IN  [net     |-> <<Request("GET", None, <<"organizations">>, reply)>>,
              session |-> IF r.kind = "return"
                          THEN [s EXCEPT !.organization_id = r.value] ELSE s,
              out     |-> IF r.kind = "return" THEN Return(None) ELSE r]
    ELSE [net |-> <<>>, session |-> s, out |-> Return(None)]

\* The session argument passes the constructor's test.
SessionAccepted(s) == ~s.missing /\ s.cookie # "" /\ s.user_agent # ""

\* __init__ of package p: the requests it issues, the session it leaves and
\* its outcome.
\* (init_mut: the organization id is resolved before the session is tested.)
init_mut(p, model, s, reply) ==
    IF p = "claude2_api" /\ model \notin {"claude-2.0", "claude-2.1"}
    THEN [net |-> <<>>, session |-> s, out |-> Raise(ValueError("model_name must be either one of claude-2.0 or claude-2.1"))]
    ELSE LET r == ResolveOrganizationId(s, reply)
         IN  IF ~SessionAccepted(s)
             THEN [r EXCEPT !.out = Raise(ValueError("Invalid SessionData argument!"))]
             ELSE r
init(p, model, s, reply) ==
    IF p = "claude2_api" /\ model \notin {"claude-2.0", "claude-2.1"}
    THEN [net |-> <<>>, session |-> s, out |-> Raise(ValueError("model_name must be either one of claude-2.0 or claude-2.1"))]
    ELSE IF ~SessionAccepted(s)
    THEN [net |-> <<>>, session |-> s,
          out |-> Raise(ValueError("Invalid SessionData argument!"))]
    ELSE ResolveOrganizationId(s, reply)

\* create_chat, given the reply to the POST.
\* (create_chat_mut: any 2xx status is taken for success.)
create_chat_mut(reply) ==
    IF reply.status_code < 300 /\ "uuid" \in DOMAIN reply.json
    THEN Return(reply.json.uuid)
    ELSE Return(None)
create_chat(reply) ==
    IF reply.status_code = 201 /\ "uuid" \in DOMAIN reply.json
    THEN Return(reply.json.uuid)
    ELSE Return(None)

\* delete_chat, given the reply to the DELETE.
\* (delete_chat_mut: any 2xx status is taken for success.)
delete_chat_mut(reply) == Return(reply.status_code < 300)
delete_chat(reply) == Return(reply.status_code = 204)

\* get_all_chat_ids, given the reply to the listing GET.
get_all_chat_ids(reply) ==
    IF reply.status_code = 200
    THEN LET with_uuid == SelectSeq(reply.json, LAMBDA chat : "uuid" \in DOMAIN chat)
         IN  [i \in 1..Len(with_uuid) |-> with_uuid[i].uuid]
    ELSE <<>>

\* delete_all_chats, given the listing reply and, per chat id, the reply to
\* its DELETE: the requests it issues and what it returns.
\* (delete_all_chats_mut: any() in place of all().)
delete_all_chats_mut(org, listing, replies) ==
    LET chats == get_all_chat_ids(listing)
    IN  [net |-> <<Request("GET", org, <<"chat_conversations">>, listing)>>
                 \o [i \in 1..Len(chats) |->
                        Request("DELETE", org, <<"chat_conversations", chats[i]>>,
                                replies[chats[i]])],
         results |-> [i \in 1..Len(chats) |-> delete_chat(replies[chats[i]]).value],
         out |-> Return(\E i \in 1..Len(chats) : delete_chat(replies[chats[i]]).value)]
\* (delete_all_chats_short: all() over a generator, which stops at the first
\* deletion that returns False.)
delete_all_chats_short(org, listing, replies) ==
    LET listed == get_all_chat_ids(listing)
        failed == { i \in 1..Len(listed) : ~delete_chat(replies[listed[i]]).value }
        chats  == IF failed = {} THEN listed
                  ELSE SubSeq(listed, 1, CHOOSE i \in failed : \A j \in failed : i <= j)
    IN  [net |-> <<Request("GET", org, <<"chat_conversations">>, listing)>>
                 \o [i \in 1..Len(chats) |->
                        Request("DELETE", org, <<"chat_conversations", chats[i]>>,
                                replies[chats[i]])],
         results |-> [i \in 1..Len(chats) |-> delete_chat(replies[chats[i]]).value],
         out |-> Return(\A i \in 1..Len(chats) : delete_chat(replies[chats[i]]).value)]
delete_all_chats(org, listing, replies) ==
    LET chats == get_all_chat_ids(listing)
    IN  [net |-> <<Request("GET", org, <<"chat_conversations">>, listing)>>
                 \o [i \in 1..Len(chats) |->
                        Request("DELETE", org, <<"chat_conversations", chats[i]>>,
                                replies[chats[i]])],
         results |-> [i \in 1..Len(chats) |-> delete_chat(replies[chats[i]]).value],
         out |-> Return(\A i \in 1..Len(chats) : delete_chat(replies[chats[i]]).value)]

\* The service: the chat ids it can hold, in the order it lists them.
ChatOrder == <<"chat-1", "chat-2", "chat-3">>
ChatIds   == { ChatOrder[i] : i \in 1..Len(ChatOrder) }

ChatObj(id) == [uuid |-> id, name |-> ""]

\* The replies to GET /api/organizations.
OrgReplies ==
    { Reply(200, TRUE, <<[uuid |-> "org-1", name |-> "org"]>>),
      Reply(200, TRUE, <<[name |-> "org"]>>),
      Reply(200, TRUE, <<>>),
      Reply(200, FALSE, <<>>),
      Reply(403, TRUE, <<>>) }

\* The replies to the listing GET when the service holds `chats`: the chats,
\* the chats after an entry without uuid, or an error.
ListingReplies(chats) ==
    LET held == SelectSeq(ChatOrder, LAMBDA id : id \in chats)
        objs == [i \in 1..Len(held) |-> ChatObj(held[i])]
    IN  { Reply(200, TRUE, objs),
          Reply(200, TRUE, <<[name |-> "untitled"]>> \o objs),
          Reply(500, TRUE, <<>>) }

\* The replies to a DELETE: the service deletes a chat it holds exactly when
\* it answers 204, and answers 404 for a chat it does not hold.
DeleteStatuses(held) == IF held THEN {204, 200, 500} ELSE {404}
DeleteReply(status_code) == Reply(status_code, FALSE, EmptyObj)

\* The replies to the POST that creates chat new_uuid: the service creates
\* the chat exactly when it answers 201.
CreateReplies(new_uuid) ==
    { Reply(201, TRUE, ChatObj(new_uuid)),
      Reply(201, TRUE, [name |-> ""]),
      Reply(201, TRUE, EmptyObj),
      Reply(200, TRUE, ChatObj(new_uuid)),
      Reply(500, TRUE, EmptyObj) }

\* The sessions and model names handed to the constructor.
Sessions ==
    {NoSession} \cup
    { SessionData(c, u, o) : c \in {"", "sessionKey=sk"}, u \in {"", "Mozilla/5.0"},
                             o \in {None, "org-0"} }
CtorModels(p) ==
    IF p = "claude_api" THEN {None, "claude-3-opus"} ELSE {"claude-2.1", "claude-3-opus"}

\* The other arguments of the constructor.
CtorArgs == { [timeout |-> 240, proxy |-> None],
              [timeout |-> 30,  proxy |-> "HTTPProxy"] }

\* The attributes __init__ leaves on the client.
Client(model_name_, timeout, proxy, timezone) ==
    [model_name |-> model_name_, timeout |-> timeout, proxy |-> proxy,
     timezone |-> timezone]

\* The attributes of the client and of its session that a method assigns to:
\* outside __init__ no method has an assignment to self or to the session.
\* (AssignsMut: send_message fills the organization id of the session.)
AssignsMut(method) ==
    IF method = "send_message" THEN {"organization_id"} ELSE {}
Assigns(method) == {}

\* The states of an object after a call of the method: the attributes the
\* method does not assign to are as before, the others hold any value.
Written(method, obj) ==
    { [a \in DOMAIN obj |-> IF a \in Assigns(method) THEN v ELSE obj[a]] :
        v \in {None, "org-2"} }

\* What a call of the method leaves of the session and of the client.
Frame(method) ==
    /\ session' \in Written(method, session)
    /\ client' \in Written(method, client)

\* get_chat_data, given the reply to the GET: its JSON, whatever the status.
get_chat_data(reply) == Return(reply.json)

\* The replies to the GET of a chat.
ChatDataReplies(chat_id, held) ==
    IF held
    THEN { Reply(200, TRUE, ChatObj(chat_id)), Reply(500, TRUE, EmptyObj) }
    ELSE { Reply(404, TRUE, [detail |-> "not found"]) }

\* The attachment lists and the responses of the send_message calls: an
\* answer, a rate limit, a body without candidate.
ClientPaths == { <<>>, <<F_huge>> }
ClientResponses ==
    FewResponses \cup { HttpResponse(500, None, Buffer(<<>>, <<TextLine>>)) }

\* uuid4(): an id never seen before; which one is immaterial, the model
\* takes the first unused one.
FreshId ==
    LET unused == SelectSeq(ChatOrder, LAMBDA id : id \notin used_ids)
    IN  IF unused = <<>> THEN {} ELSE {unused[1]}

\* The call record of an operation.
Call(name, requests, out) == [name |-> name, net |-> requests, out |-> out]

\* One more True from delete_chat for each id of `ids` (counted up to 2).
Succeeded(ids) ==
    [id \in ChatIds |-> IF id \in ids /\ delete_successes[id] < 2
                        THEN delete_successes[id] + 1 ELSE delete_successes[id]]

InitClient ==
    /\ pkg \in Packages
    /\ IdleParse
    /\ IdleDecode
    /\ IdleSend
    /\ IdleSleep
    /\ session0 \in Sessions
    /\ session = session0
    /\ clients = 0
    /\ constructions = 0
    /\ validated = 0
    /\ failed_resolutions = 0
    /\ org_lookups = 0
    /\ server_chats \in { {}, {ChatOrder[1]} }
    /\ used_ids = server_chats
    /\ delete_successes = [id \in ChatIds |-> 0]
    /\ op = Call("none", <<>>, NotCalled)
    /\ client = NotCalled

\* A client is constructed on the shared session.
Construct ==
    /\ constructions < MaxConstructions
    /\ \E model \in CtorModels(pkg), args \in CtorArgs, reply \in OrgReplies :
          LET r == init(pkg, model, session, reply)
              raised == IF r.out.kind = "raise" THEN r.out.exc.type ELSE "none"
          IN  /\ session' = r.session
              /\ op' = Call("init", r.net, r.out)
              /\ org_lookups' = org_lookups + Len(r.net)
              /\ validated' = validated + (IF raised = "ValueError" THEN 0 ELSE 1)
              /\ failed_resolutions' =
                     failed_resolutions + (IF raised = "RuntimeError" THEN 1 ELSE 0)
              /\ clients' = clients + (IF raised = "none" THEN 1 ELSE 0)
              /\ client' = IF raised = "none"
                           THEN Client(model, args.timeout, args.proxy, "Europe/Rome")
                           ELSE client
    /\ constructions' = constructions + 1
    /\ UNCHANGED <<pkg, parseVars, decodeVars, sendVars, sleepVars, session0,
                   server_chats, used_ids, delete_successes>>

CreateChat ==
    /\ clients > 0
    /\ \E new_uuid \in FreshId : \E reply \in CreateReplies(new_uuid) :
          /\ op' = Call("create_chat",
                        <<Request("POST", session.organization_id,
                                  <<"chat_conversations">>, reply)>>,
                        create_chat(reply))
          /\ server_chats' = IF reply.status_code = 201
                             THEN server_chats \cup {new_uuid} ELSE server_chats
          /\ used_ids' = used_ids \cup {new_uuid}
    /\ Frame("create_chat")
    /\ UNCHANGED <<pkg, parseVars, decodeVars, sendVars, sleepVars, session0,
                   clients, constructions, validated,
                   failed_resolutions, org_lookups, delete_successes>>

DeleteChat ==
    /\ clients > 0
    /\ \E chat_id \in ChatIds : \E status \in DeleteStatuses(chat_id \in server_chats) :
          LET out == delete_chat(DeleteReply(status))
          IN  /\ op' = Call("delete_chat",
                            <<Request("DELETE", session.organization_id,
                                      <<"chat_conversations", chat_id>>,
                                      DeleteReply(status))>>,
                            out)
              /\ server_chats' = IF status = 204
                                 THEN server_chats \ {chat_id} ELSE server_chats
              /\ delete_successes' = Succeeded(IF out.value THEN {chat_id} ELSE {})
    /\ Frame("delete_chat")
    /\ UNCHANGED <<pkg, parseVars, decodeVars, sendVars, sleepVars, session0,
                   clients, constructions, validated,
                   failed_resolutions, org_lookups, used_ids>>

GetAllChatIds ==
    /\ clients > 0
    /\ \E reply \in ListingReplies(server_chats) :
          op' = Call("get_all_chat_ids",
                     <<Request("GET", session.organization_id,
                               <<"chat_conversations">>, reply)>>,
                     Return(get_all_chat_ids(reply)))
    /\ Frame("get_all_chat_ids")
    /\ UNCHANGED <<pkg, parseVars, decodeVars, sendVars, sleepVars, session0,
                   clients, constructions, validated,
                   failed_resolutions, org_lookups, server_chats, used_ids,
                   delete_successes>>

DeleteAllChats ==
    /\ clients > 0
    /\ \E listing \in ListingReplies(server_chats) : \E deleted \in SUBSET server_chats :
          LET replies == [id \in ChatIds |->
                             DeleteReply(IF id \in deleted THEN 204
                                         ELSE IF id \in server_chats THEN 500
                                         ELSE 404)]
              r    == delete_all_chats(session.organization_id, listing, replies)
              gone == { r.net[i].path[2] : i \in { j \in 2..Len(r.net) :
                                                     r.net[j].reply.status_code = 204 } }
              true == { r.net[i + 1].path[2] : i \in { j \in 1..Len(r.results) :
                                                         r.results[j] } }
          IN  /\ op' = Call("delete_all_chats", r.net, r.out)
              /\ server_chats' = server_chats \ gone
              /\ delete_successes' = Succeeded(true)
    /\ Frame("delete_all_chats")
    /\ UNCHANGED <<pkg, parseVars, decodeVars, sendVars, sleepVars, session0,
                   clients, constructions, validated,
                   failed_resolutions, org_lookups, used_ids>>

\* get_chat_data of a chat, the service free in its reply.
GetChatData ==
    /\ clients > 0
    /\ \E chat_id \in ChatIds : \E reply \in ChatDataReplies(chat_id, chat_id \in server_chats) :
          op' = Call("get_chat_data",
                     <<Request("GET", session.organization_id,
                               <<"chat_conversations", chat_id>>, reply)>>,
                     get_chat_data(reply))
    /\ Frame("get_chat_data")
    /\ UNCHANGED <<pkg, parseVars, decodeVars, sendVars, sleepVars, session0,
                   clients, constructions, validated,
                   failed_resolutions, org_lookups, server_chats, used_ids,
                   delete_successes>>

\* send_message on the client last constructed.
SendMessage ==
    /\ clients > 0
    /\ \E paths \in ClientPaths, resp \in ClientResponses :
          LET r == send_message(pkg, client.model_name, paths, resp)
          IN  op' = Call("send_message", r.net, r.out)
    /\ Frame("send_message")
    /\ UNCHANGED <<pkg, parseVars, decodeVars, sendVars, sleepVars, session0,
                   clients, constructions, validated,
                   failed_resolutions, org_lookups, server_chats, used_ids,
                   delete_successes>>

NextClient ==
    \/ Construct \/ CreateChat \/ DeleteChat \/ GetAllChatIds \/ DeleteAllChats
    \/ GetChatData \/ SendMessage

SpecClient == InitClient /\ [][NextClient]_vars

---------------------------------------------------------------------------
(* Vocabulary of the properties of the parser *)

Lines == data_bytes.lines

IsObj(l)        == l.kind = "cand" /\ l.valid
IsMalformed(l)  == l.kind = "cand" /\ ~l.valid
HasKey(l, k)    == IsObj(l) /\ k \in DOMAIN l.obj
IsErrorLine(l)  == HasKey(l, "error")
IsCompletionLine(l) == HasKey(l, "completion") /\ ~IsErrorLine(l)
IsRateLimitLine(l)  == IsErrorLine(l) /\ "resets_at" \in DOMAIN l.obj.error
NoCandidate(l)  == l.kind \in {"blank", "text"}
IsText(ls)      == \A i \in 1..Len(ls) : ls[i].kind # "bytes"

\* The completion values of the well-formed lines, in line order.
RECURSIVE CompletionsOf(_)
CompletionsOf(ls) ==
    IF ls = <<>> THEN <<>>
    ELSE (IF HasKey(Head(ls), "completion") THEN <<Head(ls).obj.completion>> ELSE <<>>)
         \o CompletionsOf(Tail(ls))

\* The answer the well-formed lines spell: joined without separator, trimmed.
ExpectedAnswer(ls) == Return(StrVal(Strip(Join(CompletionsOf(ls)))))

\* Line j is the first line with an `error` key and the loop reaches it: the
\* body is text and every candidate before it is a well-formed object.
FirstErrorAt(ls, j) ==
    /\ IsText(ls)
    /\ IsErrorLine(ls[j])
    /\ \A i \in 1..(j - 1) : NoCandidate(ls[i]) \/ (IsObj(ls[i]) /\ ~IsErrorLine(ls[i]))

RaisedType(out) == IF out.kind = "raise" THEN out.exc.type ELSE "none"

---------------------------------------------------------------------------
(* C1 *)

\* Completion fragments first, then at line j an object carrying
\* error.resets_at; whatever text follows line j.
CompletionsThenRateLimit(ls, j) ==
    /\ IsText(ls)
    /\ IsRateLimitLine(ls[j])
    /\ \A i \in 1..(j - 1) : IsCompletionLine(ls[i]) \/ NoCandidate(ls[i])
    /\ \E i \in 1..(j - 1) : IsCompletionLine(ls[i])

\* C1: a stream of one or more well-formed completion objects followed by an
\* object carrying error.resets_at makes the parser raise
\* MessageRateLimitError with reset_timestamp equal to that resets_at, never
\* return an answer, however many fragments came first.
C1_RateLimitPrecedence ==
    parse_pc = "done" =>
        \A j \in 1..Len(Lines) :
            CompletionsThenRateLimit(Lines, j) =>
                parse_out = Raise(MessageRateLimitError(Lines[j].obj.error.resets_at))

C1_Witness ==
    /\ parse_pc = "done"
    /\ Len(Lines) = 3
    /\ CompletionsThenRateLimit(Lines, 3)
    /\ IsCompletionLine(Lines[1]) /\ IsCompletionLine(Lines[2])
    /\ parse_out = Raise(MessageRateLimitError(1700000000))

---------------------------------------------------------------------------
(* C2 *)

\* C2 (as claimed): a line whose candidate is not valid JSON is skipped: with
\* one malformed line and at least one well-formed completion line (and no
\* error object) the answer is the one the well-formed lines spell, and the
\* outcome is None when no candidate parses.
C2_MalformedLineSkipped ==
    (parse_pc = "done" /\ IsText(Lines)
        /\ (\E i \in 1..Len(Lines) : IsMalformed(Lines[i]))
        /\ (\A i \in 1..Len(Lines) : ~IsErrorLine(Lines[i])))
    => IF \E i \in 1..Len(Lines) : IsObj(Lines[i])
       THEN parse_out = ExpectedAnswer(Lines)
       ELSE parse_out = Return(NoneVal)

---------------------------------------------------------------------------
(* C4 *)

\* C4 (as claimed): every stream with at least one parseable line and no
\* error object returns the completion values joined in line order without
\* separator, the whole trimmed, the interior whitespace kept.
C4_AnswerIsTrimmedConcatenation ==
    (parse_pc = "done" /\ IsText(Lines)
        /\ (\E i \in 1..Len(Lines) : IsObj(Lines[i]))
        /\ (\A i \in 1..Len(Lines) : ~IsErrorLine(Lines[i])))
    => parse_out = ExpectedAnswer(Lines)

---------------------------------------------------------------------------
(* C5 *)

\* C5: the first error object, when it has no resets_at, raises OverloadError
\* carrying the message exactly when its type contains "overloaded", and
\* otherwise ClaudeAPIError carrying type and message; a missing type is "".
C5_OverloadedIffTypeContains ==
    parse_pc = "done" =>
        \A j \in 1..Len(Lines) :
            (FirstErrorAt(Lines, j) /\ ~IsRateLimitLine(Lines[j])) =>
                LET e   == Lines[j].obj.error
                    typ == IF "type" \in DOMAIN e THEN e.type ELSE <<>>
                    msg == IF "message" \in DOMAIN e THEN e.message ELSE ""
                IN  /\ RaisedType(parse_out) \in {"OverloadError", "ClaudeAPIError"}
                    /\ RaisedType(parse_out) = "OverloadError"
                           <=> Contains(typ, S_overloaded)
                    /\ RaisedType(parse_out) = "OverloadError"
                           => parse_out.exc = OverloadError(msg)
                    /\ RaisedType(parse_out) = "ClaudeAPIError"
                           => parse_out.exc = ClaudeAPIError(typ, msg)

\* "overloaded" inside the type, not at its start.
C5_Witness ==
    /\ parse_pc = "done"
    /\ \E j \in 1..Len(Lines) :
          /\ FirstErrorAt(Lines, j)
          /\ Lines[j].obj.error = [type |-> S_api_overloaded]
    /\ parse_out = Raise(OverloadError(""))

---------------------------------------------------------------------------
(* C6 *)

\* C6: inside one object resets_at wins over the type (an object whose error
\* has both resets_at and an overloaded or other type raises
\* MessageRateLimitError), and an object with both `error` and `completion`
\* raises the error: its completion is not accumulated into an answer.
C6_KeyPrecedence ==
    parse_pc = "done" =>
        \A j \in 1..Len(Lines) :
            FirstErrorAt(Lines, j) =>
                /\ IsRateLimitLine(Lines[j]) =>
                       parse_out = Raise(MessageRateLimitError(Lines[j].obj.error.resets_at))
                /\ HasKey(Lines[j], "completion") =>
                       RaisedType(parse_out) \in
                           {"MessageRateLimitError", "OverloadError", "ClaudeAPIError"}

C6_Witness ==
    /\ parse_pc = "done"
    /\ \E j \in 1..Len(Lines) :
          /\ FirstErrorAt(Lines, j)
          /\ IsRateLimitLine(Lines[j])
          /\ "type" \in DOMAIN Lines[j].obj.error
          /\ Contains(Lines[j].obj.error.type, S_overloaded)
    /\ RaisedType(parse_out) = "MessageRateLimitError"

---------------------------------------------------------------------------
(* C9 *)

---------------------------------------------------------------------------
(* Vocabulary of the properties of send_message *)

Posted == send_pc = "done" /\ response # NotCalled

IsCompletionPost(req) == req.url = "/chat_conversations/{chat}/completion"

ValidPath(f) == f.exists /\ f.isfile /\ f.size <= filesize_limit

\* The Malformed result: no answer, the status code and the raw body.
Malformed(resp) == Return(SendMessageResponse(NoneVal, resp.status_code, resp.content))

---------------------------------------------------------------------------
(* C3 *)

\* C3 (as claimed): a 429 response whose body is an error object with
\* resets_at makes send_message raise MessageRateLimitError with that epoch,
\* also when decoding the body under the declared Content-Encoding fails.
C3_RateLimitOn429 ==
    (Posted /\ response.status_code = 429
        /\ response.content.layers = <<>>
        /\ Len(response.content.lines) = 1
        /\ IsRateLimitLine(response.content.lines[1]))
    => send_out = Raise(MessageRateLimitError(response.content.lines[1].obj.error.resets_at))

---------------------------------------------------------------------------
(* C7 *)

\* C7 (as claimed): when the decoded body is empty, whitespace-only or has no
\* line containing a brace-delimited object, send_message raises nothing and
\* returns answer None with the status code and the raw body of the response.
C7_NoCandidateIsMalformed ==
    (Posted /\ dec.kind = "return"
        /\ \A i \in 1..Len(dec.value.lines) : dec.value.lines[i].kind # "cand")
    => send_out = Malformed(response)

---------------------------------------------------------------------------
(* C8 *)

\* C8 (as claimed): when decompressing the body under its declared
\* Content-Encoding fails, send_message returns answer None with the status
\* code and the raw body, and the parser is never run on that body.
C8_DecodeFailureReturnsRaw ==
    (Posted /\ dec.kind = "raise")
    => (send_out = Malformed(response) /\ parser_arg = NotCalled)

---------------------------------------------------------------------------
(* C10 *)

\* C10: a list of exactly 5 valid paths is accepted (the completion POST is
\* issued and no validation error is raised); a list of 6 or more is rejected
\* with ValueError and no request, upload or completion, has been issued.
C10_AttachmentLimit ==
    send_pc = "done" =>
        /\ (Len(attachment_paths) = 5
              /\ \A i \in 1..5 : ValidPath(attachment_paths[i]))
           => /\ net # <<>>
              /\ IsCompletionPost(net[Len(net)])
              /\ RaisedType(send_out) # "ValueError"
        /\ Len(attachment_paths) >= 6
           => /\ send_out = Raise(ValueError("Cannot attach more than 5 files!"))
              /\ net = <<>>

C10_Witness ==
    /\ send_pc = "done"
    /\ Len(attachment_paths) = 6
    /\ \E i \in 1..6 : get_content_type(attachment_paths[i]) # "text/plain"
    /\ RaisedType(send_out) = "ValueError"
    /\ net = <<>>

---------------------------------------------------------------------------
(* Vocabulary of the properties of the attachments *)

IsTextPath(f) == get_content_type(f) = "text/plain"

\* The call passed validation: 1 to 5 paths, all valid.
Accepted ==
    /\ send_pc = "done"
    /\ Len(attachment_paths) \in 1..5
    /\ \A i \in 1..Len(attachment_paths) : ValidPath(attachment_paths[i])

\* The names of the paths that satisfy Keep(_), in list order.
NamesWhere(paths, Keep(_)) ==
    LET kept == SelectSeq(paths, Keep)
    IN  [i \in 1..Len(kept) |-> kept[i].name]

\* The file names of a list of attachment values, in order.
AttachmentNames(as) == [i \in 1..Len(as) |-> as[i].file_name]

\* The requests of the call that are uploads, and the payload it posted.
Uploads      == SelectSeq(net, LAMBDA r : ~IsCompletionPost(r))
PostedPayload == net[Len(net)].body

\* The upload of a non-text path got HTTP 200 with a file_uuid.
UploadedWithUuid(f) ==
    ~IsTextPath(f) /\ f.upload_status = 200 /\ "file_uuid" \in f.upload_keys

---------------------------------------------------------------------------
(* C11 *)

\* C11: every path is validated (an existing regular file of at most
\* 10485760 bytes, a file of exactly that size passing) before the first
\* upload: when any path of the list fails validation, the last one included,
\* the call raises ValueError and has issued no request at all, not even the
\* upload of an earlier valid non-text file.
C11_ValidationBeforeUpload ==
    send_pc = "done" =>
        /\ (\E i \in 1..Len(attachment_paths) : ~ValidPath(attachment_paths[i]))
           => (net = <<>> /\ RaisedType(send_out) = "ValueError")
        /\ (Accepted /\ \E i \in 1..Len(attachment_paths) :
                            attachment_paths[i].size = filesize_limit)
           => (net # <<>> /\ IsCompletionPost(net[Len(net)]))

\* A valid non-text file first, an oversized file last.
C11_Witness ==
    /\ send_pc = "done"
    /\ Len(attachment_paths) = 3
    /\ ValidPath(attachment_paths[1]) /\ ~IsTextPath(attachment_paths[1])
    /\ ValidPath(attachment_paths[2])
    /\ attachment_paths[3].size = filesize_limit + 1
    /\ net = <<>>
    /\ RaisedType(send_out) = "ValueError"

---------------------------------------------------------------------------
(* C12 *)

\* The upload of a path failed, as each package sees it.
UploadFailed(p, f) ==
    /\ ~IsTextPath(f)
    /\ \/ f.upload_status # 200
       \/ p = "claude_api" /\ "file_uuid" \notin f.upload_keys

\* What C12 says of a call whose failed uploads are those of Failed(_).
NonFatalUpload(Failed(_)) ==
    Accepted =>
        /\ Len(SelectSeq(net, IsCompletionPost)) = 1
        /\ IsCompletionPost(net[Len(net)])
        /\ [i \in 1..Len(Uploads) |-> Uploads[i].body]
               = NamesWhere(attachment_paths, LAMBDA f : ~IsTextPath(f))
        /\ AttachmentNames(PostedPayload.attachments \o PostedPayload.files)
               \in { NamesWhere(attachment_paths, LAMBDA f : ~Failed(f)),
                     NamesWhere(attachment_paths, LAMBDA f : IsTextPath(f))
                        \o NamesWhere(attachment_paths,
                                      LAMBDA f : ~IsTextPath(f) /\ ~Failed(f)) }

---------------------------------------------------------------------------
(* C20 *)

\* `model` is in the payload iff a model name is configured.
ModelIffConfigured == ("model" \in DOMAIN PostedPayload) <=> (model_name # None)

Claude2Attached ==
    SelectSeq(attachment_paths, LAMBDA f : IsTextPath(f) \/ f.upload_status = 200)

---------------------------------------------------------------------------
(* C19 *)

\* C19 (as claimed): an invalid UTF-8 byte never fails the whole parse: a
\* body with invalid bytes beside well-formed lines is still classified by
\* its well-formed lines, no decoding exception being raised.
C19_InvalidByteTolerated ==
    (parse_pc = "done"
        /\ (\E i \in 1..Len(Lines) : Lines[i].kind = "bytes")
        /\ (\E i \in 1..Len(Lines) : IsObj(Lines[i]))
        /\ (\A i \in 1..Len(Lines) : ~IsMalformed(Lines[i])))
    => parse_out = parse_send_message_response(
                       Buffer(<<>>, SelectSeq(Lines, LAMBDA l : l.kind # "bytes")))

---------------------------------------------------------------------------
(* C13 *)

\* C13 (as claimed): for an integer reset epoch and an integer current time,
\* sleep_sec is max(0, reset_timestamp - now) + 1: exactly 1 when the reset
\* is at or before the current time, and never less than 1.
C13_SleepSec ==
    (sleep_out # NotCalled /\ clock % TicksPerSec = 0) =>
        LET now   == clock \div TicksPerSec
            reset == exc.reset_timestamp
        IN  /\ sleep_out.value = (IF reset > now THEN reset - now ELSE 0) + 1
            /\ sleep_out.value >= 1

---------------------------------------------------------------------------
(* Vocabulary of the properties of the client *)

ChatOps == {"create_chat", "delete_chat", "get_all_chat_ids", "delete_all_chats"}

\* The reply to the i-th request of the last call.
ReplyOf(i) == op.net[i].reply

\* The chat ids a listing reply names.
ListedIds(reply) ==
    IF reply.status_code # 200 THEN <<>>
    ELSE LET named == SelectSeq(reply.json, LAMBDA c : "uuid" \in DOMAIN c)
         IN  [i \in 1..Len(named) |-> named[i].uuid]

\* No chat operation ran with an absent organization id.
OrgKnownToChatOps ==
    /\ clients > 0 => session.organization_id # None
    /\ op.name \in ChatOps =>
           \A i \in 1..Len(op.net) : op.net[i].org # None

---------------------------------------------------------------------------
(* C14 *)

---------------------------------------------------------------------------
(* C15 *)

\* C15: a constructor handed no session, an empty cookie or an empty
\* user-agent raises ValueError before any request, the organization lookup
\* included, and leaves the session's organization id as it was.
C15_InvalidSessionRejected ==
    (op.name = "init"
        /\ (session0.missing \/ session0.cookie = "" \/ session0.user_agent = ""))
    => /\ RaisedType(op.out) = "ValueError"
       /\ op.net = <<>>
       /\ org_lookups = 0
       /\ session = session0
       /\ clients = 0

\* Twice a session with a cookie, no user-agent and no organization id.
C15_Witness ==
    /\ op.name = "init"
    /\ constructions = 2
    /\ ~session0.missing /\ session0.cookie # "" /\ session0.user_agent = ""
    /\ session0.organization_id = None
    /\ RaisedType(op.out) = "ValueError"
    /\ org_lookups = 0

---------------------------------------------------------------------------
(* C16 *)

\* C16: delete_all_chats deletes exactly the chat ids the listing returned
\* and returns the conjunction of the results: True iff every DELETE got
\* 204 (so True for an empty list), False as soon as one did not.
C16_DeleteAllIsConjunction ==
    op.name = "delete_all_chats" =>
        LET listed == ListedIds(ReplyOf(1))
        IN  /\ Len(op.net) = 1 + Len(listed)
            /\ \A i \in 1..Len(listed) :
                   /\ op.net[i + 1].method = "DELETE"
                   /\ op.net[i + 1].path = <<"chat_conversations", listed[i]>>
            /\ op.out = Return(\A i \in 1..Len(listed) :
                                   ReplyOf(i + 1).status_code = 204)
            /\ listed = <<>> => op.out = Return(TRUE)

\* Two chats listed, the first deleted, the second not.
C16_Witness ==
    /\ op.name = "delete_all_chats"
    /\ Len(op.net) = 3
    /\ ReplyOf(2).status_code = 204
    /\ ReplyOf(3).status_code # 204
    /\ op.out = Return(FALSE)

---------------------------------------------------------------------------
(* C17 *)

\* C17: delete_chat returns True exactly when the DELETE got 204 and False
\* for any other status, never raising; so of the calls on one chat id at
\* most one returns True: a repetition after a success returns False.
C17_DeleteChatIs204 ==
    /\ op.name = "delete_chat" =>
           op.out = Return(ReplyOf(1).status_code = 204)
    /\ \A id \in ChatIds : delete_successes[id] <= 1

\* delete_chat repeated on a chat it deleted: 404, False.
C17_Witness ==
    /\ op.name = "delete_chat"
    /\ delete_successes[op.net[1].path[2]] = 1
    /\ ReplyOf(1).status_code = 404
    /\ op.out = Return(FALSE)

---------------------------------------------------------------------------
(* C18 *)

\* C18: create_chat returns the uuid of the reply's JSON body exactly when
\* the POST got status 201 and the body has a uuid field; for any other
\* status or a body without uuid it returns None and does not raise.
C18_CreateChatId ==
    op.name = "create_chat" =>
        /\ op.out.kind = "return"
        /\ (ReplyOf(1).status_code = 201 /\ "uuid" \in DOMAIN ReplyOf(1).json)
               => op.out.value = ReplyOf(1).json.uuid
        /\ ~(ReplyOf(1).status_code = 201 /\ "uuid" \in DOMAIN ReplyOf(1).json)
               => op.out.value = None

\* A 200 reply that carries a uuid: None.
C18_Witness ==
    /\ op.name = "create_chat"
    /\ ReplyOf(1).status_code = 200
    /\ "uuid" \in DOMAIN ReplyOf(1).json
    /\ op.out = Return(None)

---------------------------------------------------------------------------
(* C21 *)

\* C21: the first object with an `error` key, once the loop reaches it,
\* alone determines the outcome: the parser raises what it raises for that
\* line alone, whatever completions came before and whatever lines follow;
\* so an overloaded or generic error line followed by a line carrying
\* error.resets_at raises OverloadError or ClaudeAPIError, not
\* MessageRateLimitError.
C21_FirstErrorDecides ==
    parse_pc = "done" =>
        \A j \in 1..Len(Lines) :
            FirstErrorAt(Lines, j) =>
                /\ parse_out = parse_send_message_response(Buffer(<<>>, <<Lines[j]>>))
                /\ parse_out.kind = "raise"
                /\ ~IsRateLimitLine(Lines[j]) =>
                       RaisedType(parse_out) \in {"OverloadError", "ClaudeAPIError"}

\* A completion, an overloaded error, then a line carrying resets_at.
C21_Witness ==
    /\ parse_pc = "done"
    /\ Len(Lines) = 3
    /\ IsCompletionLine(Lines[1])
    /\ FirstErrorAt(Lines, 2) /\ ~IsRateLimitLine(Lines[2])
    /\ IsRateLimitLine(Lines[3])
    /\ RaisedType(parse_out) = "OverloadError"

---------------------------------------------------------------------------
(* C22 *)

\* C22 (as claimed): a stream in which at least one line yields a parseable
\* object but no object has a `completion` or `error` key returns the empty
\* string, not None; None is returned only when no line holds a
\* brace-delimited candidate.
C22_EmptyAnswerNotNone ==
    (parse_pc = "done" /\ IsText(Lines)) =>
        /\ ((\E i \in 1..Len(Lines) : IsObj(Lines[i]))
               /\ (\A i \in 1..Len(Lines) :
                      ~HasKey(Lines[i], "completion") /\ ~HasKey(Lines[i], "error")))
           => parse_out = Return(StrVal(<<>>))
        /\ parse_out = Return(NoneVal)
           => \A i \in 1..Len(Lines) : NoCandidate(Lines[i])

---------------------------------------------------------------------------
(* C23 *)

\* The DELETE requests of the last call, in the order issued.
Deletes == SelectSeq(op.net, LAMBDA r : r.method = "DELETE")

---------------------------------------------------------------------------
(* C24 *)

\* What a call classified its response as: the raised exception or the
\* answer, without the status code and the raw bytes that go with it.
Classification(out) ==
    IF out.kind = "raise" THEN out ELSE Return(out.value.answer)

\* The response to the completion POST, had it come with status sc.
WithStatus(sc) == [response EXCEPT !.status_code = sc]

\* C24: what send_message makes of a response depends on the body and its
\* Content-Encoding only: the same body under any other status code gives
\* the same answer or raises the same exception (so a 200 with an error
\* object raises, a non-2xx with completion lines only returns the answer);
\* the status code is only copied into the SendMessageResponse.
C24_StatusNotConsulted ==
    (send_pc = "done" /\ Posted) =>
        /\ \A sc \in StatusCodes :
               Classification(HandleResponse(pkg, WithStatus(sc)).out)
                   = Classification(send_out)
        /\ send_out.kind = "return" =>
               /\ send_out.value.status_code = response.status_code
               /\ send_out.value.raw_answer = response.content

\* A 429 whose body has completion lines only: the answer is returned.
C24_Witness ==
    /\ send_pc = "done" /\ Posted
    /\ response.status_code = 429
    /\ response.content.layers = <<>>
    /\ response.content.lines = <<ObjLine("", Completion(S_Hello)),
                                  ObjLine("", Completion(S_Hello))>>
    /\ send_out.kind = "return"
    /\ send_out.value.answer = StrVal(Strip(S_Hello \o S_Hello))
    /\ send_out.value.status_code = 429

---------------------------------------------------------------------------
(* C25 *)

Operations ==
    ChatOps \cup {"send_message", "get_chat_data"}

=============================================================================
